---- MODULE Spec2Model ----
(***************************************************************************)
(* ASCII art generator: the two generation handlers (the Deepseek/Gemini   *)
(* orchestrator of src/app/api/generate/route.ts and the single-provider   *)
(* Ark handler that normalizes its output), the text functions             *)
(* stripCodeFences and normalizeArt, and the page component Home that      *)
(* sends the generation requests.                                          *)
(*                                                                         *)
(* A string is a sequence of characters.  The alphabet is a                 *)
(* space, a newline, a backtick, a letter ("a", standing for [a-zA-Z]) and *)
(* a symbol ("#", any other printable character).                          *)
(***************************************************************************)
EXTENDS Integers, Sequences, FiniteSets, TLC

VARIABLES
    route,      \* which handler serves the request: "generate" or "ark"
    env,        \* process.env: which API keys are set
    req,        \* the request body
    pc,         \* position of the handler
    i,          \* loop index of generateWithGemini
    lastError,  \* lastError of generateWithGemini
    attempts,   \* provider network calls made so far, in order
    responses,  \* responses returned by the handler, in order
    raw,        \* input of normalizeArt
    out,        \* normalizeArt(raw)
    out2,       \* normalizeArt(out)
    stage,      \* position of the normalizer run
    home,       \* state of Home: ascii, loading, density, lastPrompt, error
    shown,      \* the state of Home as last rendered: what the DOM and the
                \* handlers' closures hold
    value,      \* state of InputBar: the text in the input
    inFlight,   \* fetches of /api/generate not yet settled, in order
    lastEvent   \* the event handled last

vars == <<route, env, req, pc, i, lastError, attempts, responses,
          raw, out, out2, stage, home, shown, value, inFlight, lastEvent>>

handlerVars == <<route, env, req, pc, i, lastError, attempts, responses>>
normVars == <<raw, out, out2, stage>>
uiVars == <<home, shown, value, inFlight, lastEvent>>

----------------------------------------------------------------------------
(* Bounds of the normalizer inputs *)
MaxLines == 3
MaxLead == 4
MaxLen == 2
MaxTrail == 1

\* content lengths of the centering-repair inputs
ShortLen == 1
LongLen == 8

\* characters of a provider text between its fences
MaxBody == 4

\* fetches the page may have in flight before the model stops sending
MaxInFlight == 2

----------------------------------------------------------------------------
(* Strings *)

SP == " "
NL == "\n"
\* the backtick character
BT == "backtick"

IsSpace(c) == c \in {SP, NL}
IsLetter(c) == c = "a"

Max(a, b) == IF a >= b THEN a ELSE b

RECURSIVE repeat(_, _)
repeat(c, n) == IF n <= 0 THEN <<>> ELSE <<c>> \o repeat(c, n - 1)

RECURSIVE trimStart(_)
trimStart(s) ==
    IF s = <<>> THEN <<>>
    ELSE IF IsSpace(Head(s)) THEN trimStart(Tail(s)) ELSE s

RECURSIVE trimEnd(_)
trimEnd(s) ==
    IF s = <<>> THEN <<>>
    ELSE IF IsSpace(s[Len(s)]) THEN trimEnd(SubSeq(s, 1, Len(s) - 1)) ELSE s

trim(s) == trimEnd(trimStart(s))

slice(s, n) == SubSeq(s, n + 1, Len(s))

padEnd(s, n) == s \o repeat(SP, n - Len(s))

\* text.split("\n"): always at least one element
RECURSIVE split(_)
split(s) ==
    IF s = <<>> THEN << <<>> >>
    ELSE IF Head(s) = NL THEN << <<>> >> \o split(Tail(s))
    ELSE LET rest == split(Tail(s))
         IN  << <<Head(s)>> \o Head(rest) >> \o Tail(rest)

\* lines.join("\n"): the empty array joins to the empty string
RECURSIVE join(_)
join(lines) ==
    IF lines = <<>> THEN <<>>
    ELSE IF Len(lines) = 1 THEN lines[1]
    ELSE lines[1] \o <<NL>> \o join(Tail(lines))

\* line.match(/^ */)[0].length
RECURSIVE leadingSpaces(_)
leadingSpaces(s) ==
    IF s = <<>> \/ Head(s) # SP THEN 0 ELSE 1 + leadingSpaces(Tail(s))

\* sort((a, b) => a - b)
RECURSIVE insertSorted(_, _)
insertSorted(x, s) ==
    IF s = <<>> THEN <<x>>
    ELSE IF x <= Head(s) THEN <<x>> \o s
    ELSE <<Head(s)>> \o insertSorted(x, Tail(s))

RECURSIVE sort(_)
sort(s) == IF s = <<>> THEN <<>> ELSE insertSorted(Head(s), sort(Tail(s)))

----------------------------------------------------------------------------
(* normalizeArt.  Centers are half-integers in the code (leading +         *)
(* trimmed.length / 2); the model stores twice the center, so a deviation  *)
(* of more than 3 is a difference of more than 6.                          *)

CENTER_TOLERANCE == 3

\* an if in place of the while: one blank line dropped at most
shiftBlankOnce(lines) ==
    IF lines # <<>> /\ trim(lines[1]) = <<>> THEN Tail(lines) ELSE lines

RECURSIVE shiftBlank(_)
shiftBlank(lines) ==
    IF lines # <<>> /\ trim(lines[1]) = <<>> THEN shiftBlank(Tail(lines))
    ELSE lines

RECURSIVE popBlank(_)
popBlank(lines) ==
    IF lines # <<>> /\ trim(lines[Len(lines)]) = <<>>
    THEN popBlank(SubSeq(lines, 1, Len(lines) - 1))
    ELSE lines

\* lines[i].length - lines[i].trimStart().length
leadingOf(line) == Len(line) - Len(trimStart(line))

\* twice (leading + trimmed.length / 2)
center2(line) == 2 * leadingOf(line) + Len(trim(line))

\* the centers array: one entry per non-blank line, in line order
RECURSIVE centersFrom(_, _)
centersFrom(lines, k) ==
    IF k > Len(lines) THEN <<>>
    ELSE IF trim(lines[k]) = <<>> THEN centersFrom(lines, k + 1)
    ELSE <<[idx |-> k, center |-> center2(lines[k])]>> \o centersFrom(lines, k + 1)

\* Math.round(n / 2): half-way cases round up
roundHalf(n) == IF n >= 0 THEN (n + 1) \div 2 ELSE 0 - ((0 - n) \div 2)

\* otherCenters[Math.floor(otherCenters.length / 2)], doubled
medianOf(centers) ==
    LET otherCenters == sort([k \in 1..(Len(centers) - 1) |-> centers[k + 1].center])
    IN  otherCenters[(Len(otherCenters) \div 2) + 1]

farFromMedianInclusive(line, median) ==
    LET d == center2(line) - median
    IN  (IF d >= 0 THEN d ELSE 0 - d) >= 2 * CENTER_TOLERANCE

\* Math.abs(curCenter - median) > 3
farFromMedian(line, median) ==
    LET d == center2(line) - median
    IN  (IF d >= 0 THEN d ELSE 0 - d) > 2 * CENTER_TOLERANCE

\* the body of the repair loop for one non-blank line
recenter(line, median) ==
    IF farFromMedian(line, median)
    THEN LET trimmed == trim(line)
             newLeading == Max(0, roundHalf(median - Len(trimmed)))
         IN  repeat(SP, newLeading) \o trimmed
    ELSE line

\* the minimum of line.match(/^ */)[0].length over the non-blank lines;
\* -1 stands for Infinity (no non-blank line)
minIndentOf(lines) ==
    LET S == {leadingSpaces(lines[k]) : k \in {j \in 1..Len(lines) : trim(lines[j]) # <<>>}}
    IN  IF S = {} THEN -1 ELSE CHOOSE m \in S : \A n \in S : m <= n

stripIndent(lines) ==
    LET minIndent == minIndentOf(lines)
    IN  IF minIndent > 0 THEN [k \in 1..Len(lines) |-> slice(lines[k], minIndent)]
        ELSE lines

padLines(lines) ==
    LET lens == {Len(lines[k]) : k \in 1..Len(lines)}
        maxLen == CHOOSE m \in lens : \A n \in lens : n <= m
    IN  [k \in 1..Len(lines) |-> padEnd(lines[k], maxLen)]

normalizeArtStripsShort(text) ==
    LET edge == popBlank(shiftBlank(split(text)))
        lines == [k \in 1..Len(edge) |-> trimEnd(edge[k])]
        centers == centersFrom(lines, 1)
        median == medianOf(centers)
        fixed == [k \in 1..Len(lines) |->
                    IF trim(lines[k]) = <<>> THEN lines[k] ELSE recenter(lines[k], median)]
    IN  IF Len(centers) < 3 THEN join(stripIndent(lines))
        ELSE join(padLines(stripIndent(fixed)))

normalizeArt(text) ==
    LET edge == popBlank(shiftBlank(split(text)))
        lines == [k \in 1..Len(edge) |-> trimEnd(edge[k])]
        centers == centersFrom(lines, 1)
        median == medianOf(centers)
        fixed == [k \in 1..Len(lines) |->
                    IF trim(lines[k]) = <<>> THEN lines[k] ELSE recenter(lines[k], median)]
    IN  IF Len(lines) < 2 THEN join(lines)
        ELSE IF Len(centers) < 3 THEN join(lines)
        ELSE join(padLines(stripIndent(fixed)))

----------------------------------------------------------------------------
(* stripCodeFences *)

startsWithFence(s) == Len(s) >= 3 /\ s[1] = BT /\ s[2] = BT /\ s[3] = BT

RECURSIVE dropLetters(_)
dropLetters(s) ==
    IF s # <<>> /\ IsLetter(Head(s)) THEN dropLetters(Tail(s)) ELSE s

\* replace(/^```[a-z]*\n?/i, "")
stripOpenFence(s) ==
    IF startsWithFence(s)
    THEN LET rest == dropLetters(slice(s, 3))
         IN  IF rest # <<>> /\ Head(rest) = NL THEN Tail(rest) ELSE rest
    ELSE s

\* /```\s*$/ matches at position p (1-based)
fenceToEndAt(s, p) ==
    /\ p + 2 <= Len(s)
    /\ s[p] = BT /\ s[p + 1] = BT /\ s[p + 2] = BT
    /\ \A q \in (p + 3)..Len(s) : IsSpace(s[q])

\* /\n?```\s*$/ matches at position p
closeFenceAt(s, p) ==
    \/ (s[p] = NL /\ fenceToEndAt(s, p + 1))
    \/ fenceToEndAt(s, p)

\* replace(/\n?```\s*$/, ""): the leftmost match is removed
stripCloseFence(s) ==
    LET P == {p \in 1..Len(s) : closeFenceAt(s, p)}
    IN  IF P = {} THEN s
        ELSE SubSeq(s, 1, (CHOOSE p \in P : \A q \in P : p <= q) - 1)

stripCodeFences(text) == trim(stripCloseFence(stripOpenFence(text)))

----------------------------------------------------------------------------
(* Errors and messages.  A thrown value is an Error with a message or some *)
(* other value; a message is a string, and includes(message, pattern)      *)
(* records which of the substrings tested by the handlers it contains.     *)

FALLBACK_MESSAGE == "Failed to generate ASCII art"
NO_KEY_MESSAGE ==
    "No API key configured. Add DEEPSEEK_API_KEY or GOOGLE_GEMINI_API_KEY to .env.local"
PROMPT_REQUIRED_MESSAGE == "A prompt is required"
ALL_FAILED_MESSAGE == "All providers failed."
ARK_NO_KEY_MESSAGE == "ARK_API_KEY is not configured. Add it to .env.local"
ARK_EMPTY_MESSAGE == "Model returned an empty response. Try again."
ARK_UNAUTHORIZED_MESSAGE == "Invalid API key. Check your ARK_API_KEY."
ARK_RATE_LIMIT_MESSAGE == "Rate limit reached. Wait a moment and try again."
ARK_TIMEOUT_MESSAGE == "Generation took too long. Try a simpler prompt."

\* messages of the errors a provider call can throw
ProviderMessages ==
    {"429 Too Many Requests", "models/gemini-2.0-flash is not found",
     "401 Unauthorized", "Request timed out.", "400 Bad Request"}

\* message of the SyntaxError of req.json() on an unparseable body
JSON_ERROR_MESSAGE == "Unexpected end of JSON input"

\* the tested substrings each message contains
Contains(message) ==
    CASE message = "429 Too Many Requests" -> {"429", "Too Many Requests"}
      [] message = "models/gemini-2.0-flash is not found" -> {"is not found"}
      [] message = "401 Unauthorized" -> {"401", "Unauthorized"}
      [] message = "Request timed out." -> {"timed out"}
      [] message = FALLBACK_MESSAGE -> {"rate"}
      [] OTHER -> {}

includes(message, pattern) == pattern \in Contains(message)

Error(message) == [isError |-> TRUE, message |-> message]
\* a thrown value that is not an Error (it has no message)
NonError == [isError |-> FALSE, message |-> ""]
Thrown == {Error(m) : m \in ProviderMessages} \cup {NonError}

\* the initial value of lastError in generateWithGemini
Undefined == [isError |-> FALSE, message |-> "undefined"]

\* err instanceof Error ? err.message : ""
msgOf(err) == IF err.isError THEN err.message ELSE ""

\* err instanceof Error ? err.message : "Failed to generate ASCII art"
errMessage(err) == IF err.isError THEN err.message ELSE FALLBACK_MESSAGE

\* isRetryable without the rate-limit patterns
isRetryableNoRateLimit(msg) ==
    \/ includes(msg, "quota")
    \/ includes(msg, "location is not supported")
    \/ includes(msg, "not available")
    \/ includes(msg, "is not found")

isRetryable(msg) ==
    \/ includes(msg, "429") \/ includes(msg, "quota")
    \/ includes(msg, "Too Many Requests")
    \/ includes(msg, "location is not supported")
    \/ includes(msg, "not available")
    \/ includes(msg, "is not found")

----------------------------------------------------------------------------
(* Requests, provider payloads and responses *)

\* the candidate models in the opposite order
GEMINI_MODELS_REVERSED == <<"gemini-2.0-flash-lite", "gemini-2.0-flash">>

GEMINI_MODELS == <<"gemini-2.0-flash", "gemini-2.0-flash-lite">>
DEEPSEEK_MODEL == "deepseek-chat"
ARK_MODEL == "deepseek-v3-2-251201"
BACKOFF_MS == 3000

\* the prompt field of the body: its typeof and its truthiness
Prompts ==
    {[type |-> "undefined", truthy |-> FALSE],
     [type |-> "string", truthy |-> FALSE],
     [type |-> "string", truthy |-> TRUE],
     [type |-> "number", truthy |-> TRUE],
     [type |-> "object", truthy |-> FALSE]}

\* bodyOk: await req.json() resolves with a value that can be destructured
\* (it rejects on a body that is not JSON, and destructuring null throws)
\* the density field of the body: "undefined" is an absent field, "null" the
\* JSON null, "huge" a string that names no style
Densities == {"undefined", "null", "sparse", "medium", "dense", "huge"}

Requests == [bodyOk : BOOLEAN, prompt : Prompts, density : Densities]

\* const { prompt, density = "medium" }: the default replaces undefined only
densityOrDefault(density) == IF density = "undefined" THEN "medium" ELSE density

\* the style block of each density, by its first line
DENSITY_INSTRUCTIONS ==
    [sparse |-> "Style: Clean line-art with open whitespace.",
     medium |-> "Style: Balanced detail with shading.",
     dense |-> "Style: Maximum detail, photo-like density."]

\* the template text around ${DENSITY_INSTRUCTIONS[density]}: the read of a
\* key the record does not have is undefined, interpolated as "undefined"
buildSystemPrompt(density) ==
    [rules |-> "RULES",
     style |-> IF density \in DOMAIN DENSITY_INSTRUCTIONS
               THEN DENSITY_INSTRUCTIONS[density]
               ELSE "undefined"]

Envs == [deepseek : BOOLEAN, gemini : BOOLEAN, ark : BOOLEAN]

\* texts a provider can answer with: nothing, a three-line drawing, the
\* same drawing in a tagged code fence
EmptyText == <<>>
PlainText == <<SP, "#", NL, "#", "#", "#", NL, "#", "#">>
FencedText == <<BT, BT, BT, "a", NL>> \o PlainText \o <<NL, BT, BT, BT>>
Texts == {EmptyText, PlainText, FencedText}

\* message.content of a completion: a string, or missing
Payloads == {[present |-> TRUE, text |-> t] : t \in Texts}
                \cup {[present |-> FALSE, text |-> <<>>]}
NoPayload == [present |-> FALSE, text |-> <<>>]

\* the key check with its negations dropped
noKeyConfiguredNegationsDropped(e) == e.deepseek /\ e.gemini

\* !deepseekKey && !geminiKey
noKeyConfigured(e) == ~e.deepseek /\ ~e.gemini

\* !apiKey
arkKeyMissing(e) == ~e.ark

\* the prompt check without its !prompt half
invalidPromptTypeOnly(prompt) == prompt.type # "string"

\* !prompt || typeof prompt !== "string"
invalidPrompt(prompt) == ~prompt.truthy \/ prompt.type # "string"

\* the Deepseek catch rethrowing whatever is configured
deepseekRethrowsAlways(e) == TRUE

\* the Deepseek catch swallowing every failure
deepseekRethrowsNever(e) == FALSE

\* if (!geminiKey) throw err
deepseekRethrows(e) == ~e.gemini

\* lastError assigned only by the first failure
keepFirstError(last, err) == IF last = Undefined THEN err ELSE last

\* lastError = err
nextLastError(last, err) == err

\* response.choices[0]?.message?.content ?? ""
contentOrEmpty(payload) == IF payload.present THEN payload.text ELSE <<>>

\* !text
emptyContent(payload) == ~payload.present \/ payload.text = <<>>

success(ascii) == [status |-> 200, body |-> "ascii", ascii |-> ascii, error |-> ""]
failure(status, message) ==
    [status |-> status, body |-> "error", ascii |-> <<>>, error |-> message]

newAttempt(provider, model, slept) ==
    [provider |-> provider, model |-> model, sleptBefore |-> slept,
     systemPrompt |-> buildSystemPrompt(densityOrDefault(req.density)),
     result |-> "pending", err |-> Undefined, payload |-> NoPayload]

\* the pending attempt completes
returned(as, payload) ==
    [as EXCEPT ![Len(as)].result = "returned", ![Len(as)].payload = payload]
threw(as, err) ==
    [as EXCEPT ![Len(as)].result = "threw", ![Len(as)].err = err]

----------------------------------------------------------------------------
(* POST of src/app/api/generate/route.ts *)

\* the catch of POST: every thrown value becomes a 500
catchPOST(err) == failure(500, errMessage(err))

\* the key check answering without returning: the handler goes on
POSTCheckKeysNoReturn ==
    /\ route = "generate" /\ pc = "start"
    /\ IF noKeyConfigured(env)
       THEN responses' = Append(responses, failure(500, NO_KEY_MESSAGE))
       ELSE UNCHANGED responses
    /\ pc' = "json"
    /\ UNCHANGED <<route, env, req, i, lastError, attempts, normVars, uiVars>>

POSTCheckKeys ==
    /\ route = "generate" /\ pc = "start"
    /\ IF noKeyConfigured(env)
       THEN /\ responses' = Append(responses, failure(500, NO_KEY_MESSAGE))
            /\ pc' = "done"
       ELSE /\ pc' = "json"
            /\ UNCHANGED responses
    /\ UNCHANGED <<route, env, req, i, lastError, attempts, normVars, uiVars>>

\* after await req.json(): validation, then the first provider call
POSTValidate ==
    /\ route = "generate" /\ pc = "json"
    /\ IF ~req.bodyOk
       THEN /\ responses' = Append(responses, catchPOST(Error(JSON_ERROR_MESSAGE)))
            /\ pc' = "done"
            /\ UNCHANGED <<i, lastError, attempts>>
       ELSE IF invalidPrompt(req.prompt)
       THEN /\ responses' = Append(responses, failure(400, PROMPT_REQUIRED_MESSAGE))
            /\ pc' = "done"
            /\ UNCHANGED <<i, lastError, attempts>>
       ELSE IF env.deepseek
       THEN /\ attempts' = Append(attempts, newAttempt("deepseek", DEEPSEEK_MODEL, 0))
            /\ pc' = "deepseek"
            /\ UNCHANGED <<i, lastError, responses>>
       ELSE IF env.gemini
       THEN /\ attempts' = Append(attempts, newAttempt("gemini", GEMINI_MODELS[1], 0))
            /\ i' = 0
            /\ lastError' = Undefined
            /\ pc' = "gemini"
            /\ UNCHANGED responses
       ELSE /\ responses' = Append(responses, failure(500, ALL_FAILED_MESSAGE))
            /\ pc' = "done"
            /\ UNCHANGED <<i, lastError, attempts>>
    /\ UNCHANGED <<route, env, req, normVars, uiVars>>

\* the Deepseek branch answering without returning: Gemini is tried as well
DeepseekReturnsAndGoesOn(payload) ==
    /\ route = "generate" /\ pc = "deepseek"
    /\ responses' = Append(responses, success(stripCodeFences(contentOrEmpty(payload))))
    /\ IF env.gemini
       THEN /\ attempts' = Append(returned(attempts, payload),
                                  newAttempt("gemini", GEMINI_MODELS[1], 0))
            /\ pc' = "gemini"
       ELSE /\ attempts' = returned(attempts, payload)
            /\ pc' = "done"
    /\ UNCHANGED <<route, env, req, i, lastError, normVars, uiVars>>

\* generateWithDeepseek resolves
DeepseekReturns(payload) ==
    /\ route = "generate" /\ pc = "deepseek"
    /\ attempts' = returned(attempts, payload)
    /\ responses' = Append(responses, success(stripCodeFences(contentOrEmpty(payload))))
    /\ pc' = "done"
    /\ UNCHANGED <<route, env, req, i, lastError, normVars, uiVars>>

\* generateWithDeepseek rejects
DeepseekThrows(err) ==
    /\ route = "generate" /\ pc = "deepseek"
    /\ IF deepseekRethrows(env)
       THEN /\ attempts' = threw(attempts, err)
            /\ responses' = Append(responses, catchPOST(err))
            /\ pc' = "done"
            /\ UNCHANGED <<i, lastError>>
       ELSE IF env.gemini
       THEN /\ attempts' = Append(threw(attempts, err),
                                  newAttempt("gemini", GEMINI_MODELS[1], 0))
            /\ i' = 0
            /\ lastError' = Undefined
            /\ pc' = "gemini"
            /\ UNCHANGED responses
       ELSE /\ attempts' = threw(attempts, err)
            /\ responses' = Append(responses, failure(500, ALL_FAILED_MESSAGE))
            /\ pc' = "done"
            /\ UNCHANGED <<i, lastError>>
    /\ UNCHANGED <<route, env, req, normVars, uiVars>>

\* model.generateContent resolves for GEMINI_MODELS[i]
GeminiReturns(text) ==
    /\ route = "generate" /\ pc = "gemini"
    /\ attempts' = returned(attempts, [present |-> TRUE, text |-> text])
    /\ responses' = Append(responses, success(stripCodeFences(text)))
    /\ pc' = "done"
    /\ UNCHANGED <<route, env, req, i, lastError, normVars, uiVars>>

\* model.generateContent rejects for GEMINI_MODELS[i]: the catch block, and
\* when it does not sleep, the next iteration of the loop or the final throw
GeminiThrows(err) ==
    /\ route = "generate" /\ pc = "gemini"
    /\ lastError' = nextLastError(lastError, err)
    /\ IF isRetryable(msgOf(err)) /\ i < Len(GEMINI_MODELS) - 1
       THEN /\ attempts' = threw(attempts, err)
            /\ pc' = "sleep"
            /\ UNCHANGED <<i, responses>>
       ELSE IF i + 1 < Len(GEMINI_MODELS)
       THEN /\ attempts' = Append(threw(attempts, err),
                                  newAttempt("gemini", GEMINI_MODELS[i + 2], 0))
            /\ i' = i + 1
            /\ pc' = "gemini"
            /\ UNCHANGED responses
       ELSE /\ attempts' = threw(attempts, err)
            /\ responses' = Append(responses, catchPOST(lastError'))
            /\ i' = i + 1
            /\ pc' = "done"
    /\ UNCHANGED <<route, env, req, normVars, uiVars>>

\* the sleep followed by another call to the same model: i is not advanced
GeminiSleepDoneSameModel ==
    /\ route = "generate" /\ pc = "sleep"
    /\ attempts' = Append(attempts, newAttempt("gemini", GEMINI_MODELS[i + 1], BACKOFF_MS))
    /\ pc' = "gemini"
    /\ UNCHANGED <<route, env, req, i, lastError, responses, normVars, uiVars>>

\* await sleep(3000) completes; continue
GeminiSleepDone ==
    /\ route = "generate" /\ pc = "sleep"
    /\ attempts' = Append(attempts, newAttempt("gemini", GEMINI_MODELS[i + 2], BACKOFF_MS))
    /\ i' = i + 1
    /\ pc' = "gemini"
    /\ UNCHANGED <<route, env, req, lastError, responses, normVars, uiVars>>

----------------------------------------------------------------------------
(* POST of the Ark handler *)

\* the catch of the Ark POST: the message is classified
catchArk(err) ==
    LET message == errMessage(err)
    IN  IF includes(message, "401") \/ includes(message, "Unauthorized")
        THEN failure(401, ARK_UNAUTHORIZED_MESSAGE)
        ELSE IF includes(message, "429") \/ includes(message, "rate")
        THEN failure(429, ARK_RATE_LIMIT_MESSAGE)
        ELSE IF includes(message, "timed out") \/ includes(message, "timeout")
                \/ includes(message, "ETIMEDOUT")
        THEN failure(504, ARK_TIMEOUT_MESSAGE)
        ELSE failure(500, message)

ArkCheckKey ==
    /\ route = "ark" /\ pc = "start"
    /\ IF arkKeyMissing(env)
       THEN /\ responses' = Append(responses, failure(500, ARK_NO_KEY_MESSAGE))
            /\ pc' = "done"
       ELSE /\ pc' = "json"
            /\ UNCHANGED responses
    /\ UNCHANGED <<route, env, req, i, lastError, attempts, normVars, uiVars>>

ArkValidate ==
    /\ route = "ark" /\ pc = "json"
    /\ IF ~req.bodyOk
       THEN /\ responses' = Append(responses, catchArk(Error(JSON_ERROR_MESSAGE)))
            /\ pc' = "done"
            /\ UNCHANGED attempts
       ELSE IF invalidPrompt(req.prompt)
       THEN /\ responses' = Append(responses, failure(400, PROMPT_REQUIRED_MESSAGE))
            /\ pc' = "done"
            /\ UNCHANGED attempts
       ELSE /\ attempts' = Append(attempts, newAttempt("ark", ARK_MODEL, 0))
            /\ pc' = "ark"
            /\ UNCHANGED responses
    /\ UNCHANGED <<route, env, req, i, lastError, normVars, uiVars>>

\* client.chat.completions.create resolves
ArkReturns(payload) ==
    /\ route = "ark" /\ pc = "ark"
    /\ attempts' = returned(attempts, payload)
    /\ responses' = Append(responses,
            IF emptyContent(payload) THEN failure(500, ARK_EMPTY_MESSAGE)
            ELSE success(normalizeArt(stripCodeFences(payload.text))))
    /\ pc' = "done"
    /\ UNCHANGED <<route, env, req, i, lastError, normVars, uiVars>>

\* client.chat.completions.create rejects
ArkThrows(err) ==
    /\ route = "ark" /\ pc = "ark"
    /\ attempts' = threw(attempts, err)
    /\ responses' = Append(responses, catchArk(err))
    /\ pc' = "done"
    /\ UNCHANGED <<route, env, req, i, lastError, normVars, uiVars>>

----------------------------------------------------------------------------
(* The page: Home with its InputBar and Toolbar.  React renders the state  *)
(* set in a click or key handler before the next event is delivered; the   *)
(* state set after an await is rendered later, in a step of its own.       *)

NETWORK_ERROR_MESSAGE == "Network error. Please try again."

DENSITIES == {"sparse", "medium", "dense"}

\* texts typed into the input
InputValues == {<<>>, <<SP>>, <<"a">>, <<SP, "#", SP>>}

\* the parsed body of a response: error is "undefined" in { ascii }, and the
\* ascii of a 200 response may be empty
Datas ==
    {[error |-> "undefined", ascii |-> a] : a \in {<<>>, <<"#">>, <<"a">>}}
        \cup {[error |-> e, ascii |-> <<>>] :
                  e \in {PROMPT_REQUIRED_MESSAGE, "429 Too Many Requests"}}

\* if (data.error)
hasError(data) == data.error \notin {"undefined", ""}

HomeInit ==
    [ascii |-> <<>>, loading |-> FALSE, density |-> "medium",
     lastPrompt |-> <<>>, error |-> ""]

UiIdle ==
    /\ home = HomeInit
    /\ shown = HomeInit
    /\ value = <<>>
    /\ inFlight = <<>>
    /\ lastEvent = "none"

\* generate without setLoading(true)
setOnGenerateNoLoading(h) == [h EXCEPT !.error = ""]

\* setLoading(true); setError("")
setOnGenerate(h) == [h EXCEPT !.loading = TRUE, !.error = ""]

\* generate(prompt, d) up to its first await, called in a handler that has
\* brought the state to h: the fetch is sent
generate(prompt, d, h) ==
    /\ Len(inFlight) < MaxInFlight
    /\ home' = setOnGenerate(h)
    /\ inFlight' = Append(inFlight, [prompt |-> prompt, density |-> d])

\* setLastPrompt(prompt) moved out of the else branch
setOnDataAlwaysStoresPrompt(h, prompt, data) ==
    IF hasError(data) THEN [h EXCEPT !.error = data.error, !.lastPrompt = prompt]
    ELSE [h EXCEPT !.ascii = data.ascii, !.lastPrompt = prompt]

\* the body of the try block of generate after the awaits
setOnData(h, prompt, data) ==
    IF hasError(data) THEN [h EXCEPT !.error = data.error]
    ELSE [h EXCEPT !.ascii = data.ascii, !.lastPrompt = prompt]

\* the catch block of generate
setOnCatch(h) == [h EXCEPT !.error = NETWORK_ERROR_MESSAGE]

\* the finally block of generate
setOnFinally(h) == [h EXCEPT !.loading = FALSE]

removeAt(seq, k) == SubSeq(seq, 1, k - 1) \o SubSeq(seq, k + 1, Len(seq))

\* onChange of the input, which is disabled while loading
Type(v) ==
    /\ ~shown.loading
    /\ value' = v
    /\ lastEvent' = "type"
    /\ UNCHANGED <<home, shown, inFlight, handlerVars, normVars>>

\* Enter in the input or a click on its button: InputBar.handleSubmit, then
\* Home.handleSubmit
Submit ==
    /\ ~shown.loading
    /\ LET trimmed == trim(value)
       IN  IF trimmed = <<>> \/ shown.loading
           THEN UNCHANGED <<home, shown, inFlight>>
           ELSE /\ generate(trimmed, shown.density, home)
                /\ shown' = home'
    /\ lastEvent' = "submit"
    /\ UNCHANGED <<value, handlerVars, normVars>>

\* a click on a density button of the Toolbar, which is rendered when ascii
\* is not empty and disabled while loading: handleDensityChange
DensityChange(d) ==
    /\ shown.ascii # <<>> /\ ~shown.loading
    /\ LET h == [home EXCEPT !.density = d]
       IN  IF shown.lastPrompt # <<>>
           THEN generate(shown.lastPrompt, d, h)
           ELSE home' = h /\ UNCHANGED inFlight
    /\ shown' = home'
    /\ lastEvent' = "density"
    /\ UNCHANGED <<value, handlerVars, normVars>>

\* a click on Regenerate: handleRegenerate
Regenerate ==
    /\ shown.ascii # <<>> /\ ~shown.loading
    /\ IF shown.lastPrompt # <<>>
       THEN generate(shown.lastPrompt, shown.density, home)
       ELSE UNCHANGED <<home, inFlight>>
    /\ shown' = home'
    /\ lastEvent' = "regenerate"
    /\ UNCHANGED <<value, handlerVars, normVars>>

\* fetch and res.json() resolve for the k-th fetch
Responds(k, data) ==
    /\ k \in 1..Len(inFlight)
    /\ home' = setOnFinally(setOnData(home, inFlight[k].prompt, data))
    /\ inFlight' = removeAt(inFlight, k)
    /\ lastEvent' = IF hasError(data) THEN "errorResponse" ELSE "success"
    /\ UNCHANGED <<shown, value, handlerVars, normVars>>

\* fetch or res.json() rejects for the k-th fetch
FetchFails(k) ==
    /\ k \in 1..Len(inFlight)
    /\ home' = setOnFinally(setOnCatch(home))
    /\ inFlight' = removeAt(inFlight, k)
    /\ lastEvent' = "networkFailure"
    /\ UNCHANGED <<shown, value, handlerVars, normVars>>

\* React renders the state set after an await
Render ==
    /\ shown # home
    /\ shown' = home
    /\ UNCHANGED <<home, value, inFlight, lastEvent, handlerVars, normVars>>

----------------------------------------------------------------------------
(* One request served by one of the two handlers *)

NormIdle ==
    /\ raw = <<>>
    /\ out = <<>>
    /\ out2 = <<>>
    /\ stage = "idle"

Init ==
    /\ route \in {"generate", "ark"}
    /\ env \in Envs
    /\ req \in Requests
    /\ pc = "start"
    /\ i = 0
    /\ lastError = Undefined
    /\ attempts = <<>>
    /\ responses = <<>>
    /\ NormIdle
    /\ UiIdle

Next ==
    \/ POSTCheckKeys
    \/ POSTValidate
    \/ \E payload \in Payloads : DeepseekReturns(payload)
    \/ \E err \in Thrown : DeepseekThrows(err)
    \/ \E text \in Texts : GeminiReturns(text)
    \/ \E err \in Thrown : GeminiThrows(err)
    \/ GeminiSleepDone
    \/ ArkCheckKey
    \/ ArkValidate
    \/ \E payload \in Payloads : ArkReturns(payload)
    \/ \E err \in Thrown : ArkThrows(err)

Spec == Init /\ [][Next]_vars

----------------------------------------------------------------------------
(* Properties of the handlers *)

LastAttempt == attempts[Len(attempts)]

\* a rate-limit error of a provider
RateLimited(err) == err.isError /\ err.message = "429 Too Many Requests"

\* the patterns that make a failure retryable
RetryablePatterns ==
    {"429", "quota", "Too Many Requests", "location is not supported",
     "not available", "is not found"}

RetryableFailure(a) ==
    a.result = "threw" /\ a.err.isError /\ Contains(a.err.message) \cap RetryablePatterns # {}

NonRetryableFailure(a) ==
    a.result = "threw" /\ (~a.err.isError \/ Contains(a.err.message) \cap RetryablePatterns = {})

\* the last candidate model of its provider: only Gemini has two candidates,
\* gemini-2.0-flash and then gemini-2.0-flash-lite
LastCandidate(a) == a.model # "gemini-2.0-flash"

\* a credential is configured for the handler that serves the request
CredentialConfigured ==
    \/ (route = "generate" /\ (env.deepseek \/ env.gemini))
    \/ (route = "ark" /\ env.ark)

\* the prompt is absent, empty or not a string
BadPrompt ==
    \/ req.prompt.type = "undefined"
    \/ (req.prompt.type = "string" /\ ~req.prompt.truthy)
    \/ req.prompt.type # "string"

\* Deepseek, tried first with both providers configured, failed with a
\* rate-limit error
C1_DeepseekRateLimited ==
    /\ route = "generate"
    /\ env.deepseek /\ env.gemini
    /\ attempts # <<>>
    /\ attempts[1].provider = "deepseek"
    /\ attempts[1].result = "threw" /\ RateLimited(attempts[1].err)

\* ... and Gemini then answered with a text
C1_Case ==
    /\ C1_DeepseekRateLimited
    /\ LastAttempt.provider = "gemini"
    /\ LastAttempt.result = "returned" /\ LastAttempt.payload.text # <<>>

\* C1: when Deepseek fails with a rate-limit error, Gemini is tried, no
\* error response is returned for the Deepseek failure, and when Gemini
\* answers with a text the handler returns exactly one response, the
\* success carrying Gemini's text with its code fences stripped.
C1_Fallback ==
    /\ C1_DeepseekRateLimited =>
          /\ Len(attempts) >= 2 /\ attempts[2].provider = "gemini"
          /\ LastAttempt.result # "threw" =>
                \A k \in 1..Len(responses) : responses[k].body # "error"
    /\ C1_Case => responses = <<success(stripCodeFences(LastAttempt.payload.text))>>

C1_Witness ==
    /\ C1_Case
    /\ pc = "done"
    /\ LastAttempt.payload.text = FencedText
    /\ Len(responses) = 1 /\ responses[1].status = 200
    /\ responses[1].ascii = <<"#", NL, "#", "#", "#", NL, "#", "#">>

\* C2: after a non-retryable failure of a candidate model, the next attempt
\* (if any) is not made with the same provider.
C2_AbortOnNonRetryable ==
    \A k \in 1..(Len(attempts) - 1) :
        NonRetryableFailure(attempts[k]) => attempts[k + 1].provider # attempts[k].provider

\* C3: a retryable failure of a candidate that is not the last one of its
\* provider is followed by one 3000 ms backoff and then by the next
\* candidate of the same provider, before any response; there is no backoff
\* after a last candidate fails, nor before any other attempt.
C3_BackoffThenNextCandidate ==
    /\ \A k \in 1..Len(attempts) :
          (RetryableFailure(attempts[k]) /\ ~LastCandidate(attempts[k])) =>
              IF k = Len(attempts) THEN pc = "sleep" /\ responses = <<>>
              ELSE /\ attempts[k + 1].provider = attempts[k].provider
                   /\ attempts[k + 1].model = "gemini-2.0-flash-lite"
                   /\ attempts[k + 1].sleptBefore = 3000
    /\ \A k \in 1..Len(attempts) :
          (attempts[k].result = "threw" /\ LastCandidate(attempts[k])) =>
              /\ k = Len(attempts) => pc # "sleep"
              /\ k < Len(attempts) => attempts[k + 1].sleptBefore = 0
    /\ \A k \in 1..Len(attempts) :
          attempts[k].sleptBefore # 0 =>
              k > 1 /\ RetryableFailure(attempts[k - 1]) /\ ~LastCandidate(attempts[k - 1])
    /\ pc = "sleep" => RetryableFailure(LastAttempt) /\ ~LastCandidate(LastAttempt)

C3_Witness ==
    /\ Len(attempts) = 3
    /\ attempts[1].provider = "deepseek" /\ attempts[1].result = "threw"
    /\ RetryableFailure(attempts[2])
    /\ attempts[3].model = "gemini-2.0-flash-lite" /\ attempts[3].sleptBefore = 3000
    /\ attempts[3].result = "threw" /\ pc = "done"

\* C4: a provider call that returns an empty or missing text is not
\* answered with a success response.
C4_EmptyPayloadIsFailure ==
    (/\ pc = "done" /\ attempts # <<>>
     /\ LastAttempt.result = "returned"
     /\ (~LastAttempt.payload.present \/ LastAttempt.payload.text = <<>>))
        => (Len(responses) = 1 /\ responses[1].body = "error")

C5_Case ==
    /\ route = "generate" /\ pc = "done"
    /\ attempts # <<>>
    /\ \A k \in 1..Len(attempts) : attempts[k].result = "threw"

\* C5: when every attempt of a request failed, the handler returns one
\* error response, and its error is the message of the last attempt's
\* failure (the fallback message when the thrown value is not an Error).
C5_ExhaustionReturnsLastFailure ==
    C5_Case =>
        /\ Len(responses) = 1
        /\ responses[1].body = "error"
        /\ responses[1].error =
              (IF LastAttempt.err.isError THEN LastAttempt.err.message
               ELSE "Failed to generate ASCII art")

C5_Witness ==
    /\ C5_Case
    /\ Len(attempts) = 3
    /\ attempts[1].err = Error("429 Too Many Requests")
    /\ attempts[2].err = Error("models/gemini-2.0-flash is not found")
    /\ attempts[3].err = Error("401 Unauthorized")
    /\ responses[1].error = "401 Unauthorized"

C10_NoKeyFailsImmediately ==
    ~CredentialConfigured =>
        /\ attempts = <<>>
        /\ pc \in {"start", "done"}
        /\ pc = "done" =>
              /\ Len(responses) = 1
              /\ responses[1].status = 500 /\ responses[1].body = "error"
              /\ responses[1].error =
                    (IF route = "generate"
                     THEN "No API key configured. Add DEEPSEEK_API_KEY or GOOGLE_GEMINI_API_KEY to .env.local"
                     ELSE "ARK_API_KEY is not configured. Add it to .env.local")

C10_Witness ==
    /\ route = "generate" /\ ~CredentialConfigured
    /\ req.bodyOk /\ req.prompt = [type |-> "string", truthy |-> TRUE]
    /\ pc = "done" /\ attempts = <<>>
    /\ Len(responses) = 1 /\ responses[1].status = 500

\* C11: a finished request has exactly one response, which is either a
\* success carrying ascii or an error carrying a message; an unfinished
\* request has none.
C11_ExactlyOneResponse ==
    /\ pc = "done" =>
          /\ Len(responses) = 1
          /\ \/ /\ responses[1].body = "ascii"
                /\ responses[1].status = 200 /\ responses[1].error = ""
             \/ /\ responses[1].body = "error"
                /\ responses[1].status # 200 /\ responses[1].ascii = <<>>
    /\ pc \notin {"done", "idle"} => responses = <<>>

C11_Witness ==
    /\ pc = "done" /\ route = "generate"
    /\ Len(attempts) = 3 /\ LastAttempt.result = "threw"
    /\ Len(responses) = 1 /\ responses[1].body = "error"

\* C12: at most one provider call is in flight, it is the last one started,
\* and every attempt before the last one has completed with a failure.
C12_Sequential ==
    /\ \A k \in 1..(Len(attempts) - 1) : attempts[k].result = "threw"
    /\ Cardinality({k \in 1..Len(attempts) : attempts[k].result = "pending"}) <= 1
    /\ attempts # <<>> =>
          (LastAttempt.result = "pending" <=> pc \in {"deepseek", "gemini", "ark"})

C12_Witness ==
    /\ Len(attempts) = 3
    /\ attempts[1].result = "threw" /\ attempts[2].result = "threw"
    /\ attempts[3].result = "pending" /\ pc = "gemini"

\* the fixed priority list, restricted to the configured providers
PriorityList ==
    (IF env.deepseek THEN <<[provider |-> "deepseek", model |-> "deepseek-chat"]>>
     ELSE <<>>)
    \o (IF env.gemini
        THEN <<[provider |-> "gemini", model |-> "gemini-2.0-flash"],
               [provider |-> "gemini", model |-> "gemini-2.0-flash-lite"]>>
        ELSE <<>>)

\* C13: the attempts of a request are a prefix of the priority list
\* Deepseek deepseek-chat, Gemini gemini-2.0-flash, Gemini
\* gemini-2.0-flash-lite restricted to the configured providers.
C13_FixedPriorityOrder ==
    route = "generate" =>
        /\ Len(attempts) <= Len(PriorityList)
        /\ \A k \in 1..Len(attempts) :
              /\ attempts[k].provider = PriorityList[k].provider
              /\ attempts[k].model = PriorityList[k].model

C13_Witness ==
    /\ route = "generate" /\ env.deepseek /\ env.gemini
    /\ Len(attempts) = 3
    /\ attempts[3].model = "gemini-2.0-flash-lite"

\* every attempt of the finished request failed
Exhausted ==
    /\ pc = "done" /\ attempts # <<>>
    /\ \A k \in 1..Len(attempts) : attempts[k].result = "threw"

\* C14: the ascii of every success response is normalizeArt applied to the
\* fence-stripped text of the provider call that succeeded.
C14_SuccessIsNormalized ==
    (pc = "done" /\ Len(responses) = 1 /\ responses[1].body = "ascii") =>
        /\ attempts # <<>> /\ LastAttempt.result = "returned"
        /\ responses[1].ascii =
              normalizeArt(stripCodeFences(contentOrEmpty(LastAttempt.payload)))

\* C15: a terminal failure has the status of its kind: 401 for a rejected
\* credential, 429 with the message to wait for a rate limit, 504 for a
\* timeout.
C15_ClassifiedStatus ==
    (Exhausted /\ LastAttempt.err.isError) =>
        /\ LastAttempt.err.message = "401 Unauthorized" =>
              (Len(responses) = 1 /\ responses[1].status = 401)
        /\ LastAttempt.err.message = "429 Too Many Requests" =>
              /\ Len(responses) = 1 /\ responses[1].status = 429
              /\ responses[1].error = "Rate limit reached. Wait a moment and try again."
        /\ LastAttempt.err.message = "Request timed out." =>
              (Len(responses) = 1 /\ responses[1].status = 504)

\* a failure that is not an authentication, rate-limit or timeout failure
OtherFailure(err) ==
    \/ ~err.isError
    \/ err.message \in {"400 Bad Request", "models/gemini-2.0-flash is not found"}

\* C16: a failure of any other kind is answered with status 500 and its raw
\* message ("Failed to generate ASCII art" for a value that is not an Error).
C16_OtherErrorsAre500 ==
    (Exhausted /\ OtherFailure(LastAttempt.err)) =>
        /\ Len(responses) = 1
        /\ responses[1].status = 500
        /\ responses[1].error =
              (IF LastAttempt.err.isError THEN LastAttempt.err.message
               ELSE "Failed to generate ASCII art")

\* C17: every provider call carries a system prompt whose style block is the
\* block of the requested density when that is sparse, medium or dense, and
\* the medium block when the density is absent, null or any other value.
ValidDensities == {"sparse", "medium", "dense"}
C17_DensityDefaulting ==
    \A k \in 1..Len(attempts) :
        attempts[k].systemPrompt.style =
            IF req.density \in ValidDensities
            THEN DENSITY_INSTRUCTIONS[req.density]
            ELSE DENSITY_INSTRUCTIONS["medium"]

\* C22: no request ends at the fall-through return "All providers failed.":
\* once a key is configured and the body is valid, the request ends either
\* with the success of the provider call that returned or with the failure
\* of the last provider call, passed through the outer catch.
C22_FallThroughUnreachable ==
    /\ \A k \in 1..Len(responses) : responses[k].error # ALL_FAILED_MESSAGE
    /\ (route = "generate" /\ pc = "done" /\ (env.deepseek \/ env.gemini)
            /\ req.bodyOk /\ ~BadPrompt) =>
          /\ attempts # <<>> /\ Len(responses) = 1
          /\ \/ LastAttempt.result = "returned" /\ responses[1].body = "ascii"
             \/ /\ LastAttempt.result = "threw"
                /\ responses[1] = failure(500, errMessage(LastAttempt.err))

\* the only configured provider has failed, and the request is answered
C22_Witness ==
    /\ route = "generate" /\ pc = "done"
    /\ env.deepseek /\ ~env.gemini
    /\ attempts # <<>> /\ LastAttempt.result = "threw"
    /\ Len(responses) = 1

\* a request whose handler steps and provider calls all complete: every
\* awaited promise settles, so a step that can be taken is taken
SpecLive == Init /\ [][Next]_vars /\ WF_vars(Next)

\* provider calls made so far to one provider's model
callsTo(provider, model) ==
    Cardinality({k \in 1..Len(attempts) :
        attempts[k].provider = provider /\ attempts[k].model = model})

\* backoff sleeps begun so far
sleepsBegun ==
    Cardinality({k \in 1..Len(attempts) : attempts[k].sleptBefore > 0})
        + (IF pc = "sleep" THEN 1 ELSE 0)

\* C21: every request ends with a response, after at most 3 provider calls
\* (at most one to Deepseek and at most one to each Gemini candidate) and at
\* most 1 backoff sleep, given that every provider call returns or throws.
C21_BoundedTermination ==
    /\ [](/\ Len(attempts) <= 3
          /\ callsTo("deepseek", "deepseek-chat") <= 1
          /\ callsTo("gemini", "gemini-2.0-flash") <= 1
          /\ callsTo("gemini", "gemini-2.0-flash-lite") <= 1
          /\ sleepsBegun <= 1)
    /\ <>(pc = "done" /\ Len(responses) = 1)

\* a request answered after three provider calls and one backoff sleep
C21_Witness ==
    /\ pc = "done" /\ Len(responses) = 1
    /\ Len(attempts) = 3
    /\ sleepsBegun = 1

----------------------------------------------------------------------------
(* The normalizer applied to bounded inputs: every text of at most         *)
(* MaxLines lines, each line being lead spaces, len symbols and trail      *)
(* spaces.                                                                 *)

LineSet ==
    {repeat(SP, lead) \o repeat("#", len) \o repeat(SP, trail) :
        lead \in 0..MaxLead, len \in 0..MaxLen, trail \in 0..MaxTrail}

\* no result yet
NoRun == <<"-">>

HandlerIdle ==
    /\ route = "none"
    /\ env = [deepseek |-> FALSE, gemini |-> FALSE, ark |-> FALSE]
    /\ req = [bodyOk |-> FALSE, prompt |-> [type |-> "undefined", truthy |-> FALSE],
              density |-> "undefined"]
    /\ pc = "idle"
    /\ i = 0
    /\ lastError = Undefined
    /\ attempts = <<>>
    /\ responses = <<>>
    /\ UiIdle

InitNorm ==
    /\ HandlerIdle
    /\ \E n \in 1..MaxLines : \E ls \in [1..n -> LineSet] : raw = join(ls)
    /\ out = NoRun
    /\ out2 = NoRun
    /\ stage = "input"

Normalize ==
    /\ stage = "input"
    /\ out' = normalizeArt(raw)
    /\ stage' = "once"
    /\ UNCHANGED <<raw, out2, handlerVars, uiVars>>

Renormalize ==
    /\ stage = "once"
    /\ out2' = normalizeArt(out)
    /\ stage' = "twice"
    /\ UNCHANGED <<raw, out, handlerVars, uiVars>>

NextNorm == Normalize \/ Renormalize

SpecNorm == InitNorm /\ [][NextNorm]_vars

----------------------------------------------------------------------------
(* Properties of the normalizer *)

\* the lines of a normalizer result
linesOf(text) == split(text)

nonBlank(line) == trim(line) # <<>>

\* the lines left after dropping the blank leading and trailing lines
edgeTrimmed(text) == popBlank(shiftBlank(split(text)))

\* C6: normalizeArt(normalizeArt(x)) = normalizeArt(x) for every input x.
C6_Idempotent == stage = "twice" => out2 = out

\* C7: all lines of normalizeArt's output have the same length.
C7_Rectangular ==
    stage = "once" =>
        \A j, k \in 1..Len(linesOf(out)) : Len(linesOf(out)[j]) = Len(linesOf(out)[k])

\* C8: the output of normalizeArt has a non-blank line with zero leading
\* spaces; stated for the inputs that keep at least two lines after edge
\* trimming, where common-indent stripping is due.
C8_NoLeadingIndent ==
    (stage = "once" /\ Len(edgeTrimmed(raw)) >= 2) =>
        \E k \in 1..Len(linesOf(out)) :
            nonBlank(linesOf(out)[k]) /\ leadingSpaces(linesOf(out)[k]) = 0

\* the lines of a text from its first to its last line that has a character
\* other than a space
contentLines(text) ==
    LET ls == split(text)
        inked == {k \in 1..Len(ls) : \E c \in 1..Len(ls[k]) : ls[k][c] # SP}
    IN  IF inked = {} THEN <<>>
        ELSE SubSeq(ls, CHOOSE k \in inked : \A j \in inked : k <= j,
                        CHOOSE k \in inked : \A j \in inked : j <= k)

\* C23: the output of normalizeArt has as many lines as the input has from
\* its first to its last non-blank line, in the same order, and each output
\* line has the whitespace-trimmed content of its input line; an input with
\* no non-blank line gives the empty string.
C23_ContentPreserved ==
    stage = "once" =>
        LET inLines == contentLines(raw)
            outLines == linesOf(out)
        IN  IF inLines = <<>> THEN out = <<>>
            ELSE /\ Len(outLines) = Len(inLines)
                 /\ \A k \in 1..Len(inLines) : trim(outLines[k]) = trim(inLines[k])

\* an input with blank lines before its first non-blank line, normalized
\* to a text that differs from the lines it was made of
C23_Witness ==
    /\ stage = "once"
    /\ Len(contentLines(raw)) >= 2
    /\ Len(split(raw)) > Len(contentLines(raw))
    /\ trim(split(raw)[1]) = <<>>
    /\ out # join(contentLines(raw))

----------------------------------------------------------------------------
(* The centering repair applied to inputs of three or more lines, each     *)
(* line being lead spaces and a short or a long run of symbols: a long     *)
(* run is wider than twice the center of a short one plus the tolerance.   *)

RepairLineSet ==
    {repeat(SP, lead) \o repeat("#", len) :
        lead \in 0..MaxLead, len \in {ShortLen, LongLen}}

InitRepair ==
    /\ HandlerIdle
    /\ \E n \in 3..MaxLines : \E ls \in [1..n -> RepairLineSet] : raw = join(ls)
    /\ out = NoRun
    /\ out2 = NoRun
    /\ stage = "input"

SpecRepair == InitRepair /\ [][NextNorm]_vars

\* the lines the repair works on: edges dropped, trailing spaces removed
repairLines == [k \in 1..Len(edgeTrimmed(raw)) |-> trimEnd(edgeTrimmed(raw)[k])]

\* at least 3 non-blank lines
repairDue == Cardinality({k \in 1..Len(repairLines) : nonBlank(repairLines[k])}) >= 3

\* twice the median of the centers of the non-blank lines except the first
repairMedian2 == medianOf(centersFrom(repairLines, 1))

\* twice the distance of a line's center from a median given doubled
deviation2(line, median2) ==
    LET d == center2(line) - median2
    IN  IF d >= 0 THEN d ELSE 0 - d

\* the output line is the input line's content behind `leading` spaces, the
\* whole block having been moved left by `shift`
placedAt(outLine, inLine, leading, shift) ==
    /\ trim(outLine) = trim(inLine)
    /\ leadingOf(outLine) + shift = leading

\* lines within the tolerance keep their indentation relative to each other
keptLines(outLines, inLines, median2, shift) ==
    \A k \in 1..Len(inLines) :
        (nonBlank(inLines[k]) /\ deviation2(inLines[k], median2) <= 2 * 3) =>
            placedAt(outLines[k], inLines[k], leadingOf(inLines[k]), shift)

\* C18 as stated: with at least 3 non-blank lines, every line whose center is
\* more than 3 from the median of the other lines' centers is re-indented so
\* that its center is within 3 of that median, and every line within 3 keeps
\* its indentation relative to the other such lines.
C18_CenteringRepair ==
    (stage = "once" /\ repairDue) =>
        LET inLines == repairLines
            outLines == linesOf(out)
            median2 == repairMedian2
        IN  /\ Len(outLines) = Len(inLines)
            /\ \E shift \in 0..MaxLead :
                  /\ keptLines(outLines, inLines, median2, shift)
                  /\ \A k \in 1..Len(inLines) :
                        (nonBlank(inLines[k]) /\ deviation2(inLines[k], median2) > 2 * 3) =>
                            LET leading == leadingOf(outLines[k]) + shift
                                outCenter2 == 2 * leading + Len(trim(inLines[k]))
                            IN  /\ placedAt(outLines[k], inLines[k], leading, shift)
                                /\ outCenter2 - median2 <= 2 * 3
                                /\ median2 - outCenter2 <= 2 * 3

\* C18 amended: a line more than 3 from the median gets the fewest leading
\* spaces that put its center at the median or right of it: the center is
\* then at most half a position right of the median, unless the content is
\* longer than twice the median, when the line starts at column 0 and its
\* center stays where that puts it. Lines within 3 keep their indentation
\* relative to each other, and every line keeps its content.
C18_CenteringRepairWhereItFits ==
    (stage = "once" /\ repairDue) =>
        LET inLines == repairLines
            outLines == linesOf(out)
            median2 == repairMedian2
        IN  /\ Len(outLines) = Len(inLines)
            /\ \E shift \in 0..MaxLead :
                  /\ keptLines(outLines, inLines, median2, shift)
                  /\ \A k \in 1..Len(inLines) :
                        (nonBlank(inLines[k]) /\ deviation2(inLines[k], median2) > 2 * 3) =>
                            LET leading == leadingOf(outLines[k]) + shift
                                outCenter2 == 2 * leading + Len(trim(inLines[k]))
                            IN  /\ placedAt(outLines[k], inLines[k], leading, shift)
                                /\ outCenter2 >= median2
                                /\ leading = 0 \/ outCenter2 <= median2 + 1

\* a line far from the median that fits left of it has been moved, next to
\* a line that kept its place
C18_Witness ==
    /\ stage = "once" /\ repairDue
    /\ LET inLines == repairLines
           outLines == linesOf(out)
           median2 == repairMedian2
       IN  \E k, j \in 1..Len(inLines) :
              /\ nonBlank(inLines[k]) /\ nonBlank(inLines[j])
              /\ deviation2(inLines[k], median2) > 2 * 3
              /\ deviation2(inLines[j], median2) <= 2 * 3
              /\ Len(trim(inLines[k])) < median2
              /\ leadingOf(outLines[k]) - leadingOf(outLines[j])
                    # leadingOf(inLines[k]) - leadingOf(inLines[j])

----------------------------------------------------------------------------
(* stripCodeFences, then normalizeArt, applied to provider texts: an       *)
(* optional opening fence with or without a tag and a newline, a body of   *)
(* at most MaxBody characters, and an optional closing fence.              *)

FENCE == <<BT, BT, BT>>

Openers ==
    {fence \o tag \o sep :
        fence \in {<<>>, FENCE}, tag \in {<<>>, <<"a">>}, sep \in {<<>>, <<NL>>}}

Closers ==
    {<<>>} \cup
    {sep \o FENCE \o tail :
        sep \in {<<>>, <<NL>>}, tail \in {<<>>, <<SP>>, <<NL>>}}

BodyChars == {SP, NL, "a", "#"}

InitFence ==
    /\ HandlerIdle
    /\ \E opener \in Openers : \E closer \in Closers :
          \E n \in 0..MaxBody : \E body \in [1..n -> BodyChars] :
              raw = opener \o body \o closer
    /\ out = NoRun
    /\ out2 = NoRun
    /\ stage = "input"

\* stripCodeFences(text)
StripFences ==
    /\ stage = "input"
    /\ out' = stripCodeFences(raw)
    /\ stage' = "stripped"
    /\ UNCHANGED <<raw, out2, handlerVars, uiVars>>

\* normalizeArt(stripCodeFences(text))
NormalizeStripped ==
    /\ stage = "stripped"
    /\ out2' = normalizeArt(out)
    /\ stage' = "normalized"
    /\ UNCHANGED <<raw, out, handlerVars, uiVars>>

NextFence == StripFences \/ NormalizeStripped

SpecFence == InitFence /\ [][NextFence]_vars

\* the characters of a text that are not whitespace, in order
nonWhitespace(text) == SelectSeq(text, LAMBDA c : ~IsSpace(c))

\* the text begins with a fence, an optional tag and then a newline
beginsWithFenceLine(text) ==
    /\ startsWithFence(text)
    /\ dropLetters(slice(text, 3)) # <<>>
    /\ Head(dropLetters(slice(text, 3))) = NL

\* what follows the opening fence line
afterFenceLine(text) == Tail(dropLetters(slice(text, 3)))

\* C19: fence stripping removes only fence markup.  A text that begins with
\* a fence, an optional tag and a newline loses that line, a closing fence
\* at the end is removed, and every non-whitespace character of the body is
\* kept; a text that does not begin with a fence followed by a newline keeps
\* all its non-whitespace characters (those of a closing fence aside).
C19_OnlyFenceMarkupRemoved ==
    stage # "input" =>
        IF beginsWithFenceLine(raw)
        THEN nonWhitespace(out) = nonWhitespace(stripCloseFence(afterFenceLine(raw)))
        ELSE nonWhitespace(out) = nonWhitespace(stripCloseFence(raw))

----------------------------------------------------------------------------
(* The normalizer applied to degenerate inputs: at most one line of        *)
(* LineSet between blank lines, so that fewer than 2 lines are left after  *)
(* the blank edges are dropped.                                            *)

BlankLines == {repeat(SP, lead) : lead \in 0..MaxLead}

InitDegenerate ==
    /\ HandlerIdle
    /\ \E before \in 0..(MaxLines - 1) : \E after \in 0..(MaxLines - 1 - before) :
          \E top \in [1..before -> BlankLines] : \E bottom \in [1..after -> BlankLines] :
              \E line \in LineSet : raw = join(top \o <<line>> \o bottom)
    /\ out = NoRun
    /\ out2 = NoRun
    /\ stage = "input"

SpecDegenerate == InitDegenerate /\ [][NextNorm]_vars

\* a line without the spaces at its end, by position
withoutTrailingSpaces(line) ==
    LET keep == {k \in 1..Len(line) : line[k] # SP}
    IN  IF keep = {} THEN <<>>
        ELSE SubSeq(line, 1, CHOOSE k \in keep : \A j \in keep : j <= k)

\* C20: when fewer than 2 lines are left after the blank leading and
\* trailing lines are dropped, normalizeArt returns what is left with only
\* its trailing whitespace removed, its indentation kept, and the empty
\* string when nothing is left.
C20_DegenerateInput ==
    (stage = "once" /\ Len(edgeTrimmed(raw)) < 2) =>
        out = IF edgeTrimmed(raw) = <<>> THEN <<>>
              ELSE withoutTrailingSpaces(edgeTrimmed(raw)[1])

\* a single indented line with spaces after it, between blank lines, has
\* been normalized
C20_Witness ==
    /\ stage = "once"
    /\ Len(split(raw)) > 1
    /\ Len(edgeTrimmed(raw)) = 1
    /\ leadingOf(edgeTrimmed(raw)[1]) > 0
    /\ edgeTrimmed(raw)[1] # withoutTrailingSpaces(edgeTrimmed(raw)[1])
    /\ leadingOf(out) > 0

----------------------------------------------------------------------------
(* The page under any sequence of events and request completions *)

InitUI == HandlerIdle /\ NormIdle

NextUI ==
    \/ \E v \in InputValues : Type(v)
    \/ Submit
    \/ \E d \in DENSITIES : DensityChange(d)
    \/ Regenerate
    \/ \E k \in 1..MaxInFlight : \E data \in Datas : Responds(k, data)
    \/ \E k \in 1..MaxInFlight : FetchFails(k)
    \/ Render

SpecUI == InitUI /\ [][NextUI]_vars

\* C24: at most one generation request is in flight at a time, the loading
\* flag is true exactly while a request is in flight (so it is false again
\* after every completion), and no request carries an empty prompt.
C24_OneRequestInFlight ==
    /\ Len(inFlight) <= 1
    /\ home.loading <=> inFlight # <<>>
    /\ \A k \in 1..Len(inFlight) :
          /\ inFlight[k].prompt # <<>>
          /\ \E c \in 1..Len(inFlight[k].prompt) : inFlight[k].prompt[c] # SP

\* a regeneration is in flight after an earlier generation has succeeded
C24_Witness ==
    /\ Len(inFlight) = 1 /\ home.loading
    /\ lastEvent = "regenerate"
    /\ home.lastPrompt # <<>> /\ home.ascii # <<>>

\* a step in which a fetch settles, and one in which a fetch is sent
settles == Len(inFlight') < Len(inFlight)
sends == Len(inFlight') > Len(inFlight)

\* C25: a generation that ends with an error response or a network failure
\* leaves ascii and lastPrompt as they were and sets the error text; ascii and
\* lastPrompt change only when a generation succeeds, which sets lastPrompt to
\* the prompt of that request together with ascii; and starting a generation
\* clears the error.
C25_FailureFrame ==
    [][/\ (settles /\ lastEvent' \in {"errorResponse", "networkFailure"}) =>
             /\ home'.ascii = home.ascii
             /\ home'.lastPrompt = home.lastPrompt
             /\ home'.error # ""
       /\ (home'.ascii # home.ascii \/ home'.lastPrompt # home.lastPrompt) =>
             (settles /\ lastEvent' = "success")
       /\ (settles /\ lastEvent' = "success") =>
             /\ \E k \in 1..Len(inFlight) : home'.lastPrompt = inFlight[k].prompt
             /\ home'.error = home.error
       /\ sends => home'.error = ""]_vars

\* a generation has failed while an earlier result is displayed: the error
\* is set next to the art and the prompt of the earlier success
C25_Witness ==
    /\ lastEvent \in {"errorResponse", "networkFailure"}
    /\ inFlight = <<>> /\ ~home.loading
    /\ home.error # ""
    /\ home.ascii # <<>> /\ home.lastPrompt # <<>>
    /\ trim(value) # home.lastPrompt

====
